---------------------------- MODULE Spec2Model ----------------------------
(***************************************************************************)
(* Shape-level model of the 3-D pre-activation ResNet backbone of          *)
(* nnunet/network_architecture/transunet/vit_seg_modeling_resnet_skip_3d.py *)
(*                                                                         *)
(* A tensor is a record [shape, sym, val].  shape = <<batch, channels, D,  *)
(* H, W>>.  The elements of a tensor that went through a convolution       *)
(* depend on weights the model does not know, so such a tensor carries the *)
(* expression that produced it (sym = TRUE, val = the sequence of layer    *)
(* names applied to the input).  A tensor handed directly to               *)
(* ensure_right_shape carries its elements (sym = FALSE, val = a function  *)
(* from 1-based index tuples to numbers).                                  *)
(* A raised exception is a record [err |-> <exception class>].             *)
(***************************************************************************)
EXTENDS Integers, Sequences, FiniteSets, TLC

VARIABLES
    block_units,   \* constructor argument: the three unit counts
    width_factor,  \* constructor argument, in hundredths (51 is 0.51)
    width,         \* self.width
    root,          \* self.root: its conv and gn
    body,          \* self.body: three blocks, each a sequence of named units
    pc,            \* position of forward(): idle, root_applied, ... , done, or the exception raised
    inp,           \* forward's argument x as passed by the caller
    b,             \* local b
    original_spatial_shape,  \* local original_spatial_shape
    x,             \* local x
    features,      \* local features
    i,             \* loop index of the for loop
    ret,           \* value returned by forward
    ers,           \* a direct call of ensure_right_shape: arguments and result
    unit           \* a direct call of a PreActBottleneck_3d: arguments and result

vars == <<block_units, width_factor, width, root, body, pc, inp, b,
          original_spatial_shape, x, features, i, ret, ers, unit>>

None == [none |-> TRUE]

(* ------------------------------ bounds --------------------------------- *)
\* largest block_units count drawn for a stage
MaxUnits == 2
\* largest input extent per axis when the configuration varies
MaxExtCfg == 13
\* largest input extent per axis for the self-test configuration
MaxExt == 17
\* largest extent per axis of a tensor handed directly to ensure_right_shape
MaxX == 2
\* largest floor(original extent / 4 / (i+1)) of a direct ensure_right_shape call
MaxRight == 5
\* largest extent per axis of a tensor handed directly to a bottleneck unit
MaxM == 4

(* ------------------------------ tensors -------------------------------- *)
IsErr(t) == "err" \in DOMAIN t

Raise(e) == [err |-> e]

Spatial(shape) == <<shape[3], shape[4], shape[5]>>

SymTensor(shape, val) == [shape |-> shape, sym |-> TRUE, val |-> val]

\* the index tuples of a tensor of the given shape (1-based)
Indices(shape) ==
    (1..shape[1]) \X (1..shape[2]) \X (1..shape[3]) \X (1..shape[4]) \X (1..shape[5])

Prod3(s) == s[1] * s[2] * s[3]

(* --------------------------- library layers ---------------------------- *)
\* a layer's result: the given shape, computed from t's elements
Out(t, shape) == SymTensor(shape, t.val)

Tag(t, name) == IF IsErr(t) THEN t ELSE SymTensor(t.shape, Append(t.val, name))

\* output extent of a convolution or pooling window along one axis
ConvOut(m, k, s, p) == ((m + 2 * p - k) \div s) + 1

StdConv3d(cin, cout, kernel_size, stride, padding) ==
    [cin |-> cin, cout |-> cout, kernel_size |-> kernel_size,
     stride |-> stride, padding |-> padding]

\* F.conv3d on shapes: channel check, window check, output extents.  Every layer
\* passes on an exception raised before it
StdConv3d_forward(conv, t) ==
    IF IsErr(t) THEN t
    ELSE IF t.shape[2] # conv.cin THEN Raise("RuntimeError")
    ELSE IF \E a \in 3..5 : t.shape[a] + 2 * conv.padding < conv.kernel_size
         THEN Raise("RuntimeError")
    ELSE Out(t, <<t.shape[1], conv.cout,
                  ConvOut(t.shape[3], conv.kernel_size, conv.stride, conv.padding),
                  ConvOut(t.shape[4], conv.kernel_size, conv.stride, conv.padding),
                  ConvOut(t.shape[5], conv.kernel_size, conv.stride, conv.padding)>>)

\* mutant: the 3x3x3 convolution built without its padding of 1
conv3x3_3d_NoPadding(cin, cout, stride) == StdConv3d(cin, cout, 3, stride, 0)

conv3x3_3d(cin, cout, stride) == StdConv3d(cin, cout, 3, stride, 1)

conv1x1_3d(cin, cout, stride) == StdConv3d(cin, cout, 1, stride, 0)

GroupNorm(num_groups, num_channels) ==
    [num_groups |-> num_groups, num_channels |-> num_channels]

\* nn.GroupNorm's constructor raises unless num_channels is a multiple of num_groups
GroupNormValid(gn) == gn.num_channels % gn.num_groups = 0

\* F.group_norm: refuses an input with a single value per group, keeps the shape
GroupNorm_forward(gn, t) ==
    IF IsErr(t) THEN t
    ELSE IF ((t.shape[1] * t.shape[2]) \div gn.num_groups) * Prod3(Spatial(t.shape)) = 1
    THEN Raise("ValueError")
    ELSE IF t.shape[2] # gn.num_channels THEN Raise("RuntimeError")
    ELSE Out(t, t.shape)

\* mutant: the max-pool built with padding=1
MaxPool3d_Padded(t) ==
    IF IsErr(t) THEN t
    ELSE Out(t, <<t.shape[1], t.shape[2], ConvOut(t.shape[3], 3, 2, 1),
                  ConvOut(t.shape[4], 3, 2, 1), ConvOut(t.shape[5], 3, 2, 1)>>)

\* nn.MaxPool3d(kernel_size=3, stride=2, padding=0)
MaxPool3d(t) ==
    IF IsErr(t) THEN t
    ELSE IF \E a \in 3..5 : ConvOut(t.shape[a], 3, 2, 0) < 1 THEN Raise("RuntimeError")
    ELSE Out(t, <<t.shape[1], t.shape[2], ConvOut(t.shape[3], 3, 2, 0),
                  ConvOut(t.shape[4], 3, 2, 0), ConvOut(t.shape[5], 3, 2, 0)>>)

\* elementwise sum, with torch's broadcasting of extents equal to 1
Broadcastable(s1, s2) == \A a \in 1..5 : s1[a] = s2[a] \/ s1[a] = 1 \/ s2[a] = 1

Max(m, n) == IF m >= n THEN m ELSE n

Add(r, y) ==
    IF IsErr(r) THEN r
    ELSE IF IsErr(y) THEN y
    ELSE IF ~Broadcastable(r.shape, y.shape) THEN Raise("RuntimeError")
    ELSE Out(y, <<Max(r.shape[1], y.shape[1]), Max(r.shape[2], y.shape[2]),
                  Max(r.shape[3], y.shape[3]), Max(r.shape[4], y.shape[4]),
                  Max(r.shape[5], y.shape[5])>>)

(* ------------------------- PreActBottleneck_3d ------------------------- *)
\* __init__; a cout or cmid of 0 stands for an omitted (None) argument
PreActBottleneck_3d(cin, cout_arg, cmid_arg, stride) ==
    LET cout == IF cout_arg = 0 THEN cin ELSE cout_arg
        cmid == IF cmid_arg = 0 THEN cout \div 4 ELSE cmid_arg
    IN  [cin |-> cin, cout |-> cout, cmid |-> cmid, stride |-> stride,
         gn1 |-> GroupNorm(32, cmid),
         conv1 |-> conv1x1_3d(cin, cmid, 1),
         gn2 |-> GroupNorm(32, cmid),
         conv2 |-> conv3x3_3d(cmid, cmid, stride),
         gn3 |-> GroupNorm(32, cout),
         conv3 |-> conv1x1_3d(cmid, cout, 1),
         has_downsample |-> (stride # 1 \/ cin # cout),
         downsample |-> conv1x1_3d(cin, cout, stride),
         gn_proj |-> GroupNorm(cout, cout)]

\* the group norms a unit constructs are all constructible
UnitValid(u) ==
    /\ GroupNormValid(u.gn1) /\ GroupNormValid(u.gn2) /\ GroupNormValid(u.gn3)
    /\ u.has_downsample => GroupNormValid(u.gn_proj)

\* forward, residual branch (lines 63-66)
ResidualBranch(u, t) ==
    IF u.has_downsample
    THEN GroupNorm_forward(u.gn_proj, StdConv3d_forward(u.downsample, t))
    ELSE t

\* forward, unit's branch (lines 69-71); relu keeps the shape
UnitBranch(u, t) ==
    GroupNorm_forward(u.gn3, StdConv3d_forward(u.conv3,
        GroupNorm_forward(u.gn2, StdConv3d_forward(u.conv2,
            GroupNorm_forward(u.gn1, StdConv3d_forward(u.conv1, t))))))

\* PreActBottleneck_3d.forward
PreActBottleneck_3d_forward(u, t) == Add(ResidualBranch(u, t), UnitBranch(u, t))

(* ----------------------------- containers ------------------------------ *)
\* OrderedDict(pairs): a repeated key keeps its first position and takes the later value
RECURSIVE OrderedDict(_)
OrderedDict(pairs) ==
    IF pairs = <<>> THEN <<>>
    ELSE LET n == Len(pairs)
             init == OrderedDict(SubSeq(pairs, 1, n - 1))
             last == pairs[n]
         IN  IF \E j \in 1..Len(init) : init[j].name = last.name
             THEN [j \in 1..Len(init) |->
                      IF init[j].name = last.name THEN last ELSE init[j]]
             ELSE Append(init, last)

\* f'unit{i:d}'
UnitName(n) == "unit" \o ToString(n)

\* nn.Sequential.forward over named units; each result is tagged prefix.name
RECURSIVE Sequential_forward(_, _, _)
Sequential_forward(seq, t, prefix) ==
    IF seq = <<>> \/ IsErr(t) THEN t
    ELSE Sequential_forward(Tail(seq),
                            Tag(PreActBottleneck_3d_forward(Head(seq).module, t),
                                prefix \o "." \o Head(seq).name),
                            prefix)

(* ----------------------------- ResNetV2_3D ----------------------------- *)
\* range(lo, hi) as a sequence
Range(lo, hi) == [j \in 1..(IF hi > lo THEN hi - lo ELSE 0) |-> lo + j - 1]

Named(name, module) == [name |-> name, module |-> module]

\* int(64 * width_factor), width_factor given in hundredths
WidthOf(wf) == (64 * wf) \div 100

\* mutant: the stem convolution built without its padding of 3
RootOf_NoPadding(cin, w) == [conv |-> StdConv3d(cin, w, 7, 2, 0), gn |-> GroupNorm(32, w)]

\* self.root (lines 85-90)
RootOf(cin, w) == [conv |-> StdConv3d(cin, w, 7, 2, 3), gn |-> GroupNorm(32, w)]

\* mutant: the later units generated by range(1, n + 1)
BlockOf_RangeFromOne(n, cin, cout, cmid, stride) ==
    OrderedDict(<<Named("unit1", PreActBottleneck_3d(cin, cout, cmid, stride))>>
                \o [j \in 1..Len(Range(1, n + 1)) |->
                       Named(UnitName(Range(1, n + 1)[j]), PreActBottleneck_3d(cout, cout, cmid, 1))])

\* one block of self.body: unit1 carries the transition, units 2..n keep the width
BlockOf(n, cin, cout, cmid, stride) ==
    LET rest == Range(2, n + 1)
    IN  OrderedDict(<<Named("unit1", PreActBottleneck_3d(cin, cout, cmid, stride))>>
                    \o [j \in 1..Len(rest) |->
                           Named(UnitName(rest[j]), PreActBottleneck_3d(cout, cout, cmid, 1))])

\* mutant: block3 built with block2's output width
BodyOf_Block3Narrow(units, w) ==
    OrderedDict(<<Named("block1", BlockOf(units[1], w, w * 4, w, 1)),
                  Named("block2", BlockOf(units[2], w * 4, w * 8, w * 2, 2)),
                  Named("block3", BlockOf(units[3], w * 8, w * 8, w * 4, 2))>>)

\* self.body (lines 92-105)
BodyOf(units, w) ==
    OrderedDict(<<Named("block1", BlockOf(units[1], w, w * 4, w, 1)),
                  Named("block2", BlockOf(units[2], w * 4, w * 8, w * 2, 2)),
                  Named("block3", BlockOf(units[3], w * 8, w * 16, w * 4, 2))>>)

\* every group norm of the backbone is constructible, so __init__ returns
Constructible(r, bd) ==
    /\ GroupNormValid(r.gn)
    /\ \A k \in 1..Len(bd) : \A j \in 1..Len(bd[k].module) : UnitValid(bd[k].module[j].module)

\* self.root(x): conv, gn, relu
Root_forward(r, t) == Tag(GroupNorm_forward(r.gn, StdConv3d_forward(r.conv, t)), "root")

\* self.body[k](x), k 1-based
Block_forward(bd, k, t) == Sequential_forward(bd[k].module, t, bd[k].name)

\* mutant: the divisor taken one stage further
RightSpatialShape_NextIndex(orig, ii) ==
    [a \in 1..3 |-> orig[a] \div (4 * (ii + 2))]

\* torch.tensor(original_spatial_shape) / 4 / (i + 1), floored: the quotient
\* n / 4 / (i + 1) is the fraction n over 4 * (i + 1)
RightSpatialShape(orig, ii) ==
    [a \in 1..3 |-> orig[a] \div (4 * (ii + 1))]

\* mutant: the snapshot allocated with torch.ones
Zeros_Ones(shape) == [idx \in Indices(shape) |-> 1]

\* torch.zeros(shape) for a tensor carrying its elements
Zeros(shape) == [idx \in Indices(shape) |-> 0]

\* feat[:, :, :d, :h, :w] = t, elementwise; a batch of 1 is broadcast
SliceAssign(feat, t) ==
    [idx \in DOMAIN feat |->
        IF idx[3] <= t.shape[3] /\ idx[4] <= t.shape[4] /\ idx[5] <= t.shape[5]
        THEN t.val[<<IF t.shape[1] = 1 THEN 1 ELSE idx[1], idx[2], idx[3], idx[4], idx[5]>>]
        ELSE feat[idx]]

\* lines 128-131: a zero tensor of the right shape with t in its low-index corner
ZeroPadCopy(t, shape) ==
    IF t.shape[1] # shape[1] /\ t.shape[1] # 1 THEN Raise("RuntimeError")
    ELSE [shape |-> shape, sym |-> t.sym,
          val |-> IF t.sym THEN Append(t.val, "zeropad")
                  ELSE SliceAssign(Zeros(shape), t)]

\* mutant: the band of the assertion taken strict at its upper end
PadOK_Strict(pad) == \A a \in 1..3 : pad[a] < 3 /\ pad[a] >= 0

\* the assertion of line 127
PadOK(pad) == \A a \in 1..3 : pad[a] <= 3 /\ pad[a] >= 0

\* line 126
PadOf(right_spatial_shape, current_spatial_shape) ==
    [a \in 1..3 |-> right_spatial_shape[a] - current_spatial_shape[a]]

\* lines 125-134, given the two shapes
Reconcile(t, bb, right_spatial_shape, current_spatial_shape) ==
    IF current_spatial_shape # right_spatial_shape
    THEN IF ~PadOK(PadOf(right_spatial_shape, current_spatial_shape))
         THEN Raise("AssertionError")
         ELSE ZeroPadCopy(t, <<bb, t.shape[2]>> \o right_spatial_shape)
    ELSE t

ensure_right_shape(t, bb, orig, ii) ==
    Reconcile(t, bb, RightSpatialShape(orig, ii), Spatial(t.shape))

\* mutant: the list returned in production order
Reverse_Identity(s) == s

\* features[::-1]
Reverse(s) == [j \in 1..Len(s) |-> s[Len(s) + 1 - j]]

(* ------------------------------- states -------------------------------- *)
BatchSizes == {1, 2}

WidthFactors == {51, 100}

StagePc(k) == <<"stage_1_applied", "stage_2_applied", "stage_3_applied">>[k]

LoopPcs == {"pooled", "stage_1_applied", "stage_2_applied"}

Constructed(units, wf, cin) ==
    /\ block_units = units
    /\ width_factor = wf
    /\ width = WidthOf(wf)
    /\ root = RootOf(cin, WidthOf(wf))
    /\ body = BodyOf(units, WidthOf(wf))
    /\ Constructible(root, body)
    /\ pc = "idle"
    /\ inp = None /\ b = None /\ original_spatial_shape = None /\ x = None
    /\ features = None /\ i = None /\ ret = None /\ ers = None /\ unit = None

\* any valid configuration
Init ==
    \E units \in (1..MaxUnits) \X (1..MaxUnits) \X (1..MaxUnits), wf \in WidthFactors :
        Constructed(units, wf, 1)

\* the configuration of the file's self-test: ResNetV2_3D((3, 4, 9), 1, 1)
InitSelfTest == Constructed(<<3, 4, 9>>, 100, 1)

self == <<block_units, width_factor, width, root, body>>

(* ------------------------------- forward ------------------------------- *)
\* lines 108-112 on the input t, y being self.root(t)
RootResult(t, y) ==
    /\ inp' = t
    /\ b' = t.shape[1]
    /\ original_spatial_shape' = Spatial(t.shape)
    /\ x' = IF IsErr(y) THEN t ELSE y
    /\ features' = IF IsErr(y) THEN <<>> ELSE <<y>>
    /\ pc' = IF IsErr(y) THEN y.err ELSE "root_applied"

\* an input of the declared channel count
InputOf(bb, d, h, w) == SymTensor(<<bb, root.conv.cin, d, h, w>>, <<"x">>)

\* the extents of the self-test's input, torch.rand(1, 1, 90, 192, 192)
SelfTestExtents == {90, 192}

Extents(maxext) == (1..maxext) \cup SelfTestExtents

RootStep(maxext) ==
    /\ pc = "idle" /\ ers = None /\ unit = None
    /\ \E bb \in BatchSizes, d \in Extents(maxext), h \in Extents(maxext),
          w \in Extents(maxext) :
          RootResult(InputOf(bb, d, h, w), Root_forward(root, InputOf(bb, d, h, w)))
    /\ i' = 0
    /\ UNCHANGED <<self, ret, ers, unit>>

\* x = y unless y is a raised exception, which ends the call
Assign(y, nextpc) ==
    /\ x' = IF IsErr(y) THEN x ELSE y
    /\ pc' = IF IsErr(y) THEN y.err ELSE nextpc

\* line 113
PoolStep ==
    /\ pc = "root_applied"
    /\ Assign(Tag(MaxPool3d(x), "pool"), "pooled")
    /\ UNCHANGED <<self, inp, b, original_spatial_shape, features, i, ret, ers, unit>>

\* mutant: the snapshot assigned back to x
StageResult_FeedSnapshot(y, feat) ==
    /\ x' = IF IsErr(feat) THEN (IF IsErr(y) THEN x ELSE y) ELSE feat
    /\ features' = IF IsErr(feat) THEN features ELSE Append(features, feat)
    /\ i' = IF IsErr(feat) THEN i ELSE i + 1
    /\ pc' = IF IsErr(feat) THEN feat.err ELSE StagePc(i + 1)

\* lines 115-117 given y = self.body[i](x) and feat = self.ensure_right_shape(y, ...)
StageResult(y, feat) ==
    /\ x' = IF IsErr(y) THEN x ELSE y
    /\ features' = IF IsErr(feat) THEN features ELSE Append(features, feat)
    /\ i' = IF IsErr(feat) THEN i ELSE i + 1
    /\ pc' = IF IsErr(feat) THEN feat.err ELSE StagePc(i + 1)

\* what line 116 yields for the stage output y; an exception raised in line 115 stands
SnapshotOf(y) ==
    IF IsErr(y) THEN y ELSE ensure_right_shape(y, b, original_spatial_shape, i)

\* lines 114-117, one iteration of the loop; i counts the iterations done
StageStep ==
    /\ pc \in LoopPcs
    /\ i < Len(body) - 1
    /\ StageResult(Block_forward(body, i + 1, x), SnapshotOf(Block_forward(body, i + 1, x)))
    /\ UNCHANGED <<self, inp, b, original_spatial_shape, ret, ers, unit>>

\* line 118
LastStageStep ==
    /\ pc \in LoopPcs
    /\ i = Len(body) - 1
    /\ Assign(Block_forward(body, Len(body), x), StagePc(Len(body)))
    /\ UNCHANGED <<self, inp, b, original_spatial_shape, features, i, ret, ers, unit>>

\* line 119
ReturnStep ==
    /\ pc = StagePc(Len(body))
    /\ ret' = [out |-> x, features |-> Reverse(features)]
    /\ pc' = "done"
    /\ UNCHANGED <<self, inp, b, original_spatial_shape, x, features, i, ers, unit>>

(* ----------------------------- direct calls ---------------------------- *)
\* a tensor carrying its elements, all distinct and non-zero
ElemTensor(shape) ==
    [shape |-> shape, sym |-> FALSE,
     val |-> [idx \in Indices(shape) |->
                 10000 * idx[1] + 1000 * idx[2] + 100 * idx[3] + 10 * idx[4] + idx[5]]]

\* the original extents that floor to r, each e above a multiple of 4 * (i + 1)
OrigOf(ii, r, e) == [a \in 1..3 |-> 4 * (ii + 1) * r[a] + e]

\* ensure_right_shape called as forward calls it (b is the batch size of x) on a
\* tensor of any small shape; the original extents are at the low or at the
\* high end of the ranges that floor to r
CallEnsureRightShape ==
    /\ pc = "idle" /\ ers = None /\ unit = None
    /\ \E bb \in BatchSizes, ii \in 0..1 :
       \E d \in 1..MaxX, h \in 1..MaxX, w \in 1..MaxX :
       \E r \in (0..MaxRight) \X (0..MaxRight) \X (0..MaxRight) :
       \E e \in {0, 4 * (ii + 1) - 1} :
          ers' = [x |-> ElemTensor(<<bb, 2, d, h, w>>), b |-> bb,
                  original_spatial_shape |-> OrigOf(ii, r, e), i |-> ii,
                  ret |-> ensure_right_shape(ElemTensor(<<bb, 2, d, h, w>>), bb,
                                             OrigOf(ii, r, e), ii)]
    /\ UNCHANGED <<self, pc, inp, b, original_spatial_shape, x, features, i, ret, unit>>

\* a bottleneck unit constructed and applied on its own
CallUnit ==
    /\ pc = "idle" /\ ers = None /\ unit = None
    /\ \E cin \in {32, 64}, cout \in {0, 32, 64, 128}, cmid \in {0, 32}, stride \in {1, 2} :
       \E bb \in BatchSizes, c \in {32, 64}, d \in 1..MaxM, h \in 1..MaxM, w \in 1..MaxM :
          /\ UnitValid(PreActBottleneck_3d(cin, cout, cmid, stride))
          /\ unit' = [module |-> PreActBottleneck_3d(cin, cout, cmid, stride),
                      x |-> SymTensor(<<bb, c, d, h, w>>, <<"x">>),
                      ret |-> PreActBottleneck_3d_forward(
                                  PreActBottleneck_3d(cin, cout, cmid, stride),
                                  SymTensor(<<bb, c, d, h, w>>, <<"x">>))]
    /\ UNCHANGED <<self, pc, inp, b, original_spatial_shape, x, features, i, ret, ers>>

(* ---------------------------- specifications --------------------------- *)
Next ==
    \/ RootStep(MaxExtCfg)
    \/ PoolStep
    \/ StageStep
    \/ LastStageStep
    \/ ReturnStep

Spec == Init /\ [][Next]_vars

NextSelfTest ==
    \/ RootStep(MaxExt)
    \/ PoolStep
    \/ StageStep
    \/ LastStageStep
    \/ ReturnStep
    \/ CallEnsureRightShape
    \/ CallUnit

SpecSelfTest == InitSelfTest /\ [][NextSelfTest]_vars

(* ------------------------------- claims -------------------------------- *)
ErrorPcs == {"AssertionError", "RuntimeError", "ValueError"}

RunningPcs == {"root_applied", "pooled", "stage_1_applied", "stage_2_applied",
               "stage_3_applied"}

Started == inp # None

\* the input's extent on spatial axis a (1..3)
N(a) == inp.shape[a + 2]

\* the extents of stage 3's output for an input extent n that passes stage 2
Stage3Extent(n) == ((n \div 8) + 1) \div 2

\* extent n is 0..4 above a multiple of 8: stage 2 turns it into floor(n/8)
Aligned(n) == n % 8 <= 4

\* every extent is at least 8 and 0..4 above a multiple of 8, and the batch holds
\* more than one value per channel at stage 3
AlignedInput ==
    /\ \A a \in 1..3 : N(a) >= 8 /\ Aligned(N(a))
    /\ inp.shape[1] * Stage3Extent(N(1)) * Stage3Extent(N(2)) * Stage3Extent(N(3)) >= 2

\* the states of forward after the second iteration of the loop went through
PastStage2 == {"stage_2_applied", "stage_3_applied", "done"}

C2_ReturnedChannels ==
    pc = "done" =>
        /\ ret.out.shape[2] = ((64 * width_factor) \div 100) * 16
        /\ Len(ret.features) = 3
        /\ ret.features[1].shape[2] = ((64 * width_factor) \div 100) * 8
        /\ ret.features[2].shape[2] = ((64 * width_factor) \div 100) * 4
        /\ ret.features[3].shape[2] = (64 * width_factor) \div 100
        /\ ret.out.shape[1] = inp.shape[1]
        /\ \A k \in 1..3 : ret.features[k].shape[1] = inp.shape[1]

\* completed with width_factor 0.51 (width 32), two units somewhere, batch 2
C2_Witness ==
    /\ pc = "done"
    /\ width_factor = 51
    /\ block_units = <<2, 1, 2>>
    /\ inp.shape[1] = 2
    /\ ret.out.shape[2] = 512

\* the tag of the layer that produced t, a zero padding aside
LastTag(t) ==
    IF t.val[Len(t.val)] = "zeropad" THEN t.val[Len(t.val) - 1] ELSE t.val[Len(t.val)]

\* the tag of the last unit of stage k
StageTag(k) == body[k].name \o "." \o UnitName(block_units[k])

ForwardOrder ==
    {<<"idle", "root_applied">>, <<"root_applied", "pooled">>,
     <<"pooled", "stage_1_applied">>, <<"stage_1_applied", "stage_2_applied">>,
     <<"stage_2_applied", "stage_3_applied">>, <<"stage_3_applied", "done">>}

\* the steps after which a snapshot is appended
AppendingPcs == {"root_applied", "stage_1_applied", "stage_2_applied"}

SnapshotsAt ==
    [p \in RunningPcs \cup {"done"} |->
        CASE p = "root_applied" -> 1
          [] p = "pooled" -> 1
          [] p = "stage_1_applied" -> 2
          [] OTHER -> 3]

\* C3: the steps of forward occur in the order root, max-pool, stage 1, stage 2,
\* stage 3, done (an exception aside); a snapshot is appended exactly once after
\* the root, after stage 1 and after stage 2 and at no other step; the returned
\* list is [stage2_feature, stage1_feature, root_feature], and the stage 3 output
\* is the primary output and not in the list.
C3_StepOrderAndSnapshots ==
    /\ [](pc \in RunningPcs \cup {"done"} =>
            /\ Len(features) = SnapshotsAt[pc]
            /\ LastTag(features[1]) = "root"
            /\ Len(features) >= 2 => LastTag(features[2]) = StageTag(1)
            /\ Len(features) >= 3 => LastTag(features[3]) = StageTag(2))
    /\ [](pc = "done" =>
            /\ ret.features = <<features[3], features[2], features[1]>>
            /\ LastTag(ret.out) = StageTag(3)
            /\ \A k \in 1..3 : ret.features[k] # ret.out)
    /\ [][/\ pc' \notin ErrorPcs => <<pc, pc'>> \in ForwardOrder
          /\ pc' \in AppendingPcs =>
                 /\ Len(features') = (IF pc = "idle" THEN 0 ELSE Len(features)) + 1
                 /\ pc # "idle" => SubSeq(features', 1, Len(features)) = features
          /\ pc' \notin AppendingPcs /\ pc # "idle" => features' = features]_vars

\* completed with all three snapshots in the returned list
C3_Witness ==
    /\ pc = "done"
    /\ LastTag(ret.features[1]) = StageTag(2)
    /\ LastTag(ret.features[2]) = StageTag(1)
    /\ LastTag(ret.features[3]) = "root"
    /\ block_units = <<2, 2, 2>>

\* the snapshot f recorded for stage index k, the stage output being y
SnapshotAsClaimed(f, y, k) ==
    /\ \A a \in 1..3 : f.shape[a + 2] = N(a) \div (4 * (k + 1))
    /\ f.shape[1] = y.shape[1]
    /\ f.shape[2] = y.shape[2]

\* C4: the snapshot recorded for stage index i (0 for stage 1, 1 for stage 2) has
\* on every axis the extent floor(n / 4 / (i+1)), n the input's extent on that
\* axis, whatever the extents of the stage output were, and the batch size and
\* channel count of the stage output; so have the snapshots a completed forward
\* returns.
C4_SnapshotExtents ==
    /\ pc = "stage_1_applied" => SnapshotAsClaimed(features[2], x, 0)
    /\ pc = "stage_2_applied" => SnapshotAsClaimed(features[3], x, 1)
    /\ pc = "done" =>
          /\ \A a \in 1..3 : ret.features[2].shape[a + 2] = N(a) \div 4
          /\ \A a \in 1..3 : ret.features[1].shape[a + 2] = N(a) \div 8

\* completed on an input of which stage 1's output was smaller than floor(n/4)
C4_Witness ==
    /\ pc = "done"
    /\ inp.shape = <<2, 1, 16, 17, 12>>
    /\ Spatial(x.shape) = <<1, 1, 1>>
    /\ Spatial(ret.features[2].shape) = <<4, 4, 3>>
    /\ ret.features[2].val[Len(ret.features[2].val)] = "zeropad"
    /\ Spatial(ret.features[1].shape) = <<2, 2, 1>>

\* right_shape - current_shape on axis a of the direct call of ensure_right_shape
ErsPad(a) ==
    (ers.original_spatial_shape[a] \div (4 * (ers.i + 1))) - ers.x.shape[a + 2]

\* C5: with pad = right_shape - current_shape per axis, ensure_right_shape raises
\* the assertion error if the shapes differ and pad < 0 or pad > 3 on any axis,
\* and succeeds if the shapes differ and pad is within 0..3 on every axis (3 on
\* an axis succeeds, 4 raises); when the assertion is raised in forward, no
\* snapshot is appended for that stage, no later stage is applied and nothing is
\* returned.
C5_PadBand ==
    /\ [](ers # None =>
            /\ (\E a \in 1..3 : ErsPad(a) < 0 \/ ErsPad(a) > 3) =>
                   IsErr(ers.ret) /\ ers.ret.err = "AssertionError"
            /\ ((\E a \in 1..3 : ErsPad(a) # 0) /\ (\A a \in 1..3 : ErsPad(a) \in 0..3)) =>
                   /\ ~IsErr(ers.ret)
                   /\ \A a \in 1..3 : ers.ret.shape[a + 2] = ers.x.shape[a + 2] + ErsPad(a))
    /\ [](pc = "AssertionError" =>
            /\ i \in {0, 1}
            /\ LastTag(x) = StageTag(i + 1)
            /\ \E a \in 1..3 : x.shape[a + 2] > N(a) \div (4 * (i + 1))
                                  \/ x.shape[a + 2] < (N(a) \div (4 * (i + 1))) - 3
            /\ Len(features) = i + 1
            /\ ret = None)
    /\ [][pc # "AssertionError"]_vars

\* a discrepancy of exactly 3 on the first axis was reconciled
C5_Witness ==
    /\ ers # None
    /\ ErsPad(1) = 3 /\ ErsPad(2) \in 0..3 /\ ErsPad(3) \in 0..3
    /\ ~IsErr(ers.ret)
    /\ ers.ret.shape[3] = ers.x.shape[3] + 3

\* C6 as stated: if the input's extent on every axis is divisible by 4*(i+1) for
\* stage index i (0, 1), the snapshot recorded for stage i is the stage output
\* unchanged.
C6_DivisibleInputIsNoOp ==
    /\ (pc = "stage_1_applied" /\ \A a \in 1..3 : N(a) % 4 = 0) => features[2] = x
    /\ (pc = "stage_2_applied" /\ \A a \in 1..3 : N(a) % 8 = 0) => features[3] = x

\* C6 amended: for stage index 1, if the input's extent on every axis is
\* divisible by 8, the snapshot is the stage output unchanged.  For stage index 0
\* the snapshot is the stage output unchanged exactly when no extent is
\* divisible by 4: on an axis whose extent is divisible by 4 the stage output is
\* one short of floor(n/4) and the snapshot is zero-padded by one there.
C6_NoOpOnlyOffMultiplesOf4 ==
    /\ pc = "stage_1_applied" =>
          /\ features[2] = x <=> \A a \in 1..3 : N(a) % 4 # 0
          /\ \A a \in 1..3 :
                features[2].shape[a + 2] - x.shape[a + 2] = (IF N(a) % 4 = 0 THEN 1 ELSE 0)
    /\ (pc = "stage_2_applied" /\ \A a \in 1..3 : N(a) % 8 = 0) => features[3] = x

\* extents divisible by 8: stage 2's snapshot is its output, stage 1's is padded
C6_Witness ==
    /\ pc = "stage_2_applied"
    /\ \A a \in 1..3 : N(a) % 8 = 0
    /\ features[3] = x
    /\ Spatial(features[2].shape) = <<N(1) \div 4, N(2) \div 4, N(3) \div 4>>
    /\ features[2].val[Len(features[2].val)] = "zeropad"

\* the direct call of ensure_right_shape took the padding branch
ErsPadded == ers # None /\ ~IsErr(ers.ret) /\ \E a \in 1..3 : ErsPad(a) # 0

\* C7: when ensure_right_shape pads x of spatial shape (d, h, w) to right_shape,
\* the snapshot has shape (batch, channels, right_shape), equals x at every index
\* whose spatial part lies within (d, h, w), same batch and channel index, and
\* is zero at every other index; every index of x is such an index.
C7_LowCornerCopy ==
    ErsPadded =>
        /\ ers.ret.shape = <<ers.x.shape[1], ers.x.shape[2],
                             ers.original_spatial_shape[1] \div (4 * (ers.i + 1)),
                             ers.original_spatial_shape[2] \div (4 * (ers.i + 1)),
                             ers.original_spatial_shape[3] \div (4 * (ers.i + 1))>>
        /\ DOMAIN ers.ret.val = Indices(ers.ret.shape)
        /\ Indices(ers.x.shape) \subseteq Indices(ers.ret.shape)
        /\ \A idx \in Indices(ers.ret.shape) :
              ers.ret.val[idx] =
                 (IF idx \in Indices(ers.x.shape) THEN ers.x.val[idx] ELSE 0)

\* a 2 x 2 x 1 tensor padded on all three axes
C7_Witness ==
    /\ ErsPadded
    /\ ers.x.shape[1] = 2
    /\ Spatial(ers.x.shape) = <<2, 2, 1>>
    /\ Spatial(ers.ret.shape) = <<3, 5, 2>>
    /\ ers.ret.val[<<2, 1, 2, 2, 1>>] = ers.x.val[<<2, 1, 2, 2, 1>>]
    /\ ers.ret.val[<<2, 1, 3, 2, 1>>] = 0

StageStride == <<1, 2, 2>>

\* C8: stage k is an ordered sequence of exactly block_units[k] units named
\* unit1..unitn; only the first carries the stage's stride (1, 2, 2) and the
\* width transition, every later unit has cin = cout = the stage's width and
\* stride 1; each unit's cin is the cout of the unit before it across the body,
\* and stage 1's first cin is the root's output width.
C8_BodyStructure ==
    \A k \in 1..3 :
        /\ Len(body[k].module) = block_units[k]
        /\ \A j \in 1..Len(body[k].module) :
              /\ body[k].module[j].name = "unit" \o ToString(j)
              /\ body[k].module[j].module.cout = width * 4 * 2 ^ (k - 1)
              /\ body[k].module[j].module.stride = (IF j = 1 THEN StageStride[k] ELSE 1)
              /\ body[k].module[j].module.cin =
                    (IF j > 1 THEN body[k].module[j - 1].module.cout
                     ELSE IF k > 1 THEN body[k - 1].module[Len(body[k - 1].module)].module.cout
                     ELSE root.conv.cout)
              /\ j > 1 => body[k].module[j].module.cin = body[k].module[j].module.cout
              /\ j = 1 => body[k].module[j].module.cin # body[k].module[j].module.cout

\* constructed with two units in stages 2 and 3
C8_Witness ==
    /\ block_units = <<1, 2, 2>>
    /\ Len(body[2].module) = 2
    /\ body[2].module[2].name = "unit2"
    /\ body[3].module[2].module.cin = width * 16

\* the data path with no reconciliation: stage k applied to the pooled root output
Pooled == Tag(MaxPool3d(Root_forward(root, inp)), "pool")

Stage1Out == Block_forward(body, 1, Pooled)

Stage2Out == Block_forward(body, 2, Stage1Out)

Stage3Out == Block_forward(body, 3, Stage2Out)

\* C9: the tensor fed into stage 2 is the unpadded output of stage 1 and the
\* tensor fed into stage 3 is the unpadded output of stage 2, whether or not the
\* snapshot was zero-padded; the primary output is what it is with the
\* reconciliation removed.
C9_DataPathUnpadded ==
    /\ pc = "stage_1_applied" => x = Stage1Out
    /\ pc = "stage_2_applied" => x = Stage2Out
    /\ pc = "stage_3_applied" => x = Stage3Out
    /\ pc = "done" => ret.out = Stage3Out

\* completed with a zero-padded stage 1 snapshot whose extents stage 2 would
\* have halved differently
C9_Witness ==
    /\ pc = "done"
    /\ inp.shape = <<2, 1, 12, 12, 12>>
    /\ Spatial(ret.features[2].shape) = <<3, 3, 3>>
    /\ Spatial(ret.features[1].shape) = <<1, 1, 1>>
    /\ ret.out = Stage3Out

\* the unit of the direct call has a projection shortcut and an input of its cin
UnitProjected ==
    unit # None /\ unit.module.has_downsample /\ unit.x.shape[2] = unit.module.cin

\* the projection convolution applied to the unit's input
UnitProjection == StdConv3d_forward(unit.module.downsample, unit.x)

\* the 3x3x3 convolution applied to a cmid-channel tensor of the input's extents
UnitConv2 ==
    StdConv3d_forward(unit.module.conv2,
                      SymTensor(<<unit.x.shape[1], unit.module.cmid, unit.x.shape[3],
                                  unit.x.shape[4], unit.x.shape[5]>>, <<"x">>))

\* C10: in a unit with a projection shortcut, for every input extent m >= 1 and
\* stride 1 or 2, the projection gives floor((m-1)/s)+1 per axis and the 3x3x3
\* convolution floor((m+2-3)/s)+1, the two are equal, both branches end with cout
\* channels, the sum never fails, and for stride 2 the output extent is
\* ceil(m/2).
C10_BranchShapesAgree ==
    UnitProjected =>
        /\ ~IsErr(UnitProjection) /\ ~IsErr(UnitConv2)
        /\ \A a \in 3..5 :
              /\ UnitProjection.shape[a] = ((unit.x.shape[a] - 1) \div unit.module.stride) + 1
              /\ UnitConv2.shape[a] = ((unit.x.shape[a] + 2 - 3) \div unit.module.stride) + 1
              /\ UnitProjection.shape[a] = UnitConv2.shape[a]
        /\ IsErr(unit.ret) => unit.ret.err = "ValueError"
        /\ ~IsErr(unit.ret) =>
              /\ ResidualBranch(unit.module, unit.x).shape = UnitBranch(unit.module, unit.x).shape
              /\ unit.ret.shape = UnitBranch(unit.module, unit.x).shape
              /\ unit.ret.shape[2] = unit.module.cout
              /\ \A a \in 3..5 :
                    unit.module.stride = 2 =>
                        2 * unit.ret.shape[a] \in {unit.x.shape[a], unit.x.shape[a] + 1}

\* a stride-2 projection unit applied to odd and even extents
C10_Witness ==
    /\ UnitProjected
    /\ unit.module.stride = 2
    /\ unit.module.cin = 32 /\ unit.module.cout = 64
    /\ Spatial(unit.x.shape) = <<1, 3, 4>>
    /\ ~IsErr(unit.ret)
    /\ unit.ret.shape = <<unit.x.shape[1], 64, 1, 2, 2>>

=============================================================================
